---- MODULE Spec2Model ----
(***************************************************************************)
(* Model of src/src/App.vue (the <script setup> block and the controls of  *)
(* the template that call into it): the detection request flow, the two    *)
(* watchers, the service-domain memory kept in localStorage, and the       *)
(* drawing of the preview: the bbox overlays and the download of a crop.   *)
(*                                                                         *)
(* JavaScript runs one task at a time.  A user event runs its handler to   *)
(* completion; the watcher callbacks it caused are queued by Vue and run   *)
(* (in creation order) before the next event or network completion is      *)
(* handled.  runDetection runs synchronously up to `await fetch`, and its  *)
(* continuation runs when the response arrives.  The two awaits of one     *)
(* invocation (fetch, then response.text()/response.json()) are one step   *)
(* here: the invocation writes no state between them.                      *)
(*                                                                         *)
(* Strings of the user interface are in Chinese in the source; the model   *)
(* carries an ASCII rendering of each.                                     *)
(***************************************************************************)
EXTENDS Integers, Sequences, FiniteSets, TLC

\* ---------------------------------------------------------------- bounds
MaxRequests == 2     \* network requests issued in a run
MaxUrls == 2         \* files chosen in a run
MaxSessions == 2     \* page loads sharing one localStorage

\* ------------------------------------------------------------ JS values
Null == "null"

\* A JavaScript value held by `results`: an array, or undefined.
Arr(items) == [type |-> "array", items |-> items]
Undefined == [type |-> "undefined", items |-> <<>>]

\* data[0]: the first element of an array, undefined when there is none.
Index0(data) == IF Len(data) > 0 THEN Arr(data[1]) ELSE Undefined

\* Array.prototype.includes
Includes(list, v) == \E i \in 1..Len(list) : list[i] = v

\* JSON text of an array of strings, as a sequence of tokens.
JSONstringify(list) == <<"[">> \o list \o <<"]">>
JSONparse(text) == SubSeq(text, 2, Len(text) - 1)
EmptyJSONArray == <<"[", "]">>

\* localStorage: each key holds <<>> (absent, getItem gives null) or <<v>>.
EmptyStorage == [domainList |-> <<>>, serviceDomain |-> <<>>]
SetItem(st, key, v) == [st EXCEPT ![key] = <<v>>]
\* localStorage.getItem(key) || dflt, `falsy` being the empty value of the key
GetItemOr(st, key, falsy, dflt) ==
  IF st[key] # <<>> /\ st[key][1] # falsy THEN st[key][1] ELSE dflt

\* ----------------------------------------------------------- constants
DefaultDomain == "https://ax-img-clip.dev.yiyiny.com"
OtherDomain == "http://localhost:8000"
Domains == {"", DefaultDomain, OtherDomain}      \* values typed into the input

DefaultThreshold == 50                           \* 0.5, in hundredths
Thresholds == {50, 55}                           \* slider positions, hundredths

Files == {"a.png", "b.png"}

\* Messages are sequences of text tokens; '' is <<>>.
EmptyDomainMsg == <<"service domain must not be empty">>
NoTargetMsg == <<"no target detected; try adjusting the confidence threshold">>
UnknownErrorMsg == <<"unknown error">>
ApiErrorMsg(status, statusText, errorText) ==
  <<"API error: ", status, " ", statusText, " - ", errorText>>

\* ------------------------------------------------- the service's answers
Det1 == [bbox |-> <<0, 0, 10, 10>>, class_name |-> "seal", confidence |-> 92]
Det2 == [bbox |-> <<10, 20, 110, 220>>, class_name |-> "painting", confidence |-> 71]

\* JSON bodies of 2xx responses: an array of batches of detections.
Bodies == { <<>>, << <<>> >>, << <<Det1>> >>, << <<Det2, Det1>>, <<Det1>> >> }

NoResp == [outcome |-> "none", status |-> "", statusText |-> "", text |-> "",
           data |-> <<>>, message |-> <<>>]
OkResp(d) == [NoResp EXCEPT !.outcome = "ok", !.status = "200", !.statusText = "OK",
                            !.data = d]
NotOkResp(s, st, t) == [NoResp EXCEPT !.outcome = "notok", !.status = s,
                                      !.statusText = st, !.text = t]
\* fetch rejects (network failure), with the failure's message
NetFailResp(m) == [NoResp EXCEPT !.outcome = "netfail", !.message = m]
\* 2xx, but response.json() rejects
ParseFailResp(m) == [NoResp EXCEPT !.outcome = "parsefail", !.status = "200",
                                   !.statusText = "OK", !.message = m]

Responses ==
  {OkResp(d) : d \in Bodies}
    \cup {NotOkResp("500", "Internal Server Error", "boom")}
    \cup {NetFailResp(<<"Failed to fetch">>), NetFailResp(<<>>)}
    \cup {ParseFailResp(<<"Unexpected token < in JSON at position 0">>)}

\* ----------------------------------------------------------------- state
VARIABLES
  file,            \* ref: the chosen File, or null
  threshold,       \* ref: confidence threshold, hundredths
  imageUrl,        \* ref: object URL of the chosen file (0 is '', n the n-th URL made)
  results,         \* ref: the detections shown
  isLoading,       \* ref
  error,           \* ref: message shown, <<>> is ''
  serviceDomain,   \* ref: address in the input
  domainList,      \* ref: saved addresses
  storage,         \* localStorage, shared by all page sessions
  inflight,        \* fetches made and not yet settled (the suspended invocations)
  queue,           \* watcher callbacks queued by Vue, in run order
  pc,              \* "setup" before the component is mounted, then "mounted"
  urlCount,        \* object URLs made so far
  nextId,          \* id of the next fetch
  sessions,        \* page loads so far
  attempted,       \* history: addresses fetched from in this session
  attemptedBefore, \* history: addresses fetched from in earlier sessions
  last,            \* history: the step that led to this state
  img,             \* the <img> element of the preview: its sizes
  imagePreview,    \* template ref: null, or the <img> element once it is mounted
  originalImage,   \* ref: null, or the <img> element once its load event ran
  bboxStyles,      \* the :style of each bbox overlay, as last rendered
  download         \* history: the last click on a download button and what it made

refs == <<file, threshold, imageUrl, results, isLoading, error, serviceDomain, domainList>>
\* What the rendering of the preview writes; the request flow leaves it alone.
rendering == <<img, imagePreview, originalImage, bboxStyles, download>>
vars == <<file, threshold, imageUrl, results, isLoading, error, serviceDomain, domainList,
          storage, inflight, queue, pc, urlCount, nextId, sessions, attempted,
          attemptedBefore, last, rendering>>

NoFile == "no file"
\* A suspended invocation: the id of its fetch and, as history, whether no other
\* fetch was pending during it (solo) and runDetection was not called again (quiet).
NoReq == [id |-> 0, solo |-> TRUE, quiet |-> TRUE]
\* What a fetch sends: POST domain/crop?threshold=..., body: file
NoSent == [domain |-> "", threshold |-> 0, file |-> Null]
\* op: the step; arg: its input; cause: the step that queued a watcher;
\* ran: runDetection was called in the step; fetched: the step called fetch, and
\* sent: what it sent; req, resp: the fetch settled by the step and how it settled.
NoStep == [op |-> "init", arg |-> "", cause |-> "", ran |-> FALSE,
           fetched |-> FALSE, sent |-> NoSent, req |-> NoReq, resp |-> NoResp]

\* Vue queues a watcher's callback once until it has run.
Enqueue(q, job) == IF Includes(q, job) THEN q ELSE Append(q, job)

\* No task is running and no watcher callback is queued.
Idle == pc = "mounted" /\ queue = <<>>

\* ------------------------------------------------------- Domain memory
\* line 20
SavedDomains(st) == JSONparse(GetItemOr(st, "domainList", <<>>, EmptyJSONArray))
\* line 21
LastUsedDomain(st) == GetItemOr(st, "serviceDomain", "", DefaultDomain)

\* An <img> element: the size of its picture (0 until it is loaded) and of its box.
NoImg == [naturalWidth |-> 0, naturalHeight |-> 0, clientWidth |-> 0, clientHeight |-> 0]
NoDownload == [clicked |-> FALSE, bbox |-> <<>>, index |-> 0, drawn |-> FALSE,
               width |-> 0, height |-> 0, source |-> <<>>, name |-> <<>>]
\* lines 11-12, and a page on which nothing has been drawn
NothingRendered ==
  /\ img = NoImg
  /\ imagePreview = Null
  /\ originalImage = Null
  /\ bboxStyles = <<>>
  /\ download = NoDownload

Init ==
  /\ file = Null
  /\ threshold = DefaultThreshold
  /\ imageUrl = 0
  /\ results = Arr(<<>>)
  /\ isLoading = FALSE
  /\ error = <<>>
  /\ serviceDomain = ""
  /\ domainList = <<>>
  /\ storage = EmptyStorage
  /\ inflight = {}
  /\ queue = <<>>
  /\ pc = "setup"
  /\ urlCount = 0
  /\ nextId = 1
  /\ sessions = 1
  /\ attempted = {}
  /\ attemptedBefore = {}
  /\ last = NoStep
  /\ NothingRendered

\* onMounted callback
OnMounted ==
  /\ pc = "setup"
  /\ domainList' = IF Len(SavedDomains(storage)) > 0
                   THEN SavedDomains(storage)
                   ELSE <<LastUsedDomain(storage)>>
  /\ serviceDomain' = LastUsedDomain(storage)
  /\ queue' = IF serviceDomain' # serviceDomain
              THEN Enqueue(queue, "serviceDomain") ELSE queue
  /\ pc' = "mounted"
  /\ last' = [NoStep EXCEPT !.op = "onMounted"]
  /\ UNCHANGED <<file, threshold, imageUrl, results, isLoading, error, storage,
                 inflight, urlCount, nextId, sessions, attempted, attemptedBefore, rendering>>

SavedLastUsed_Always(st, newDomain) == SetItem(st, "serviceDomain", newDomain)

\* if (newDomain) localStorage.setItem('serviceDomain', newDomain)
SavedLastUsed(st, newDomain) ==
  IF newDomain # "" THEN SetItem(st, "serviceDomain", newDomain) ELSE st

\* watch(serviceDomain) callback
WatchServiceDomain ==
  /\ queue # <<>> /\ Head(queue) = "serviceDomain"
  /\ storage' = SavedLastUsed(storage, serviceDomain)
  /\ queue' = Tail(queue)
  /\ last' = [NoStep EXCEPT !.op = "watch:serviceDomain", !.cause = last.op]
  /\ UNCHANGED <<refs, inflight, pc, urlCount, nextId, sessions, attempted,
                 attemptedBefore, rendering>>

AddedList_NoIncludesCheck(list, domain) ==
  IF domain # "" THEN Append(list, domain) ELSE list

\* domainList after addDomainToList, for the list and the service domain given
AddedList(list, domain) ==
  IF domain # "" /\ ~Includes(list, domain) THEN Append(list, domain) ELSE list

\* localStorage after addDomainToList
AddedStorage(st, list, domain) ==
  IF domain # "" /\ ~Includes(list, domain)
  THEN SetItem(st, "domainList", JSONstringify(AddedList(list, domain)))
  ELSE st

addDomainToList_NoPush == UNCHANGED <<domainList, storage>>

\* addDomainToList, called by runDetection before the request is made
addDomainToList ==
  /\ domainList' = AddedList(domainList, serviceDomain)
  /\ storage' = AddedStorage(storage, domainList, serviceDomain)

\* -------------------------------------------------- Request orchestrator
\* catch (e) { error.value = e.message || unknown }
CatchMessage(message) == IF message # <<>> THEN message ELSE UnknownErrorMsg

Sent_DefaultThreshold ==
  [domain |-> serviceDomain, threshold |-> DefaultThreshold, file |-> file]

\* The request made by fetch(`${serviceDomain}/crop?threshold=${threshold}`, body: file)
Sent == [domain |-> serviceDomain, threshold |-> threshold, file |-> file]

\* The invocation suspended at `await fetch`
NewRequest == [id |-> nextId, solo |-> inflight = {}, quiet |-> TRUE]

\* History kept on the pending fetches: another runDetection ran / fetched meanwhile.
Disturbed(reqs, fetching) ==
  {[r EXCEPT !.quiet = FALSE, !.solo = r.solo /\ ~fetching] : r \in reqs}

DomainMissing_Never == FALSE

\* if (!serviceDomain.value) throw ...
DomainMissing == serviceDomain = ""

\* runDetection up to its first await (or to its end, when it throws before)
runDetection ==
  IF file = Null
  THEN UNCHANGED <<results, isLoading, error, domainList, storage, inflight, nextId,
                   attempted>>
  ELSE /\ results' = Arr(<<>>)
       /\ addDomainToList
       /\ IF DomainMissing
          THEN /\ error' = CatchMessage(EmptyDomainMsg)
               /\ isLoading' = FALSE
               /\ inflight' = Disturbed(inflight, FALSE)
               /\ UNCHANGED <<nextId, attempted>>
          ELSE /\ error' = <<>>
               /\ isLoading' = TRUE
               /\ inflight' = Disturbed(inflight, TRUE) \cup {NewRequest}
               /\ nextId' = nextId + 1
               /\ attempted' = attempted \cup {serviceDomain}

\* What the step did, for the history
Ran(op, cause) ==
  [NoStep EXCEPT !.op = op, !.cause = cause, !.ran = TRUE,
                 !.fetched = (nextId' # nextId),
                 !.sent = IF nextId' # nextId THEN Sent ELSE NoSent]

ThrownMessage_NoBody(resp) ==
  IF resp.outcome = "notok"
  THEN <<"API error: ", resp.status>>
  ELSE resp.message

\* The message of the Error thrown in the try block once the fetch has settled
ThrownMessage(resp) ==
  IF resp.outcome = "notok"
  THEN ApiErrorMsg(resp.status, resp.statusText, resp.text)
  ELSE resp.message

ResultsAfter_LastBatch(resp, cur) ==
  IF resp.outcome = "ok"
  THEN IF Len(resp.data) > 0 THEN Arr(resp.data[Len(resp.data)]) ELSE Undefined
  ELSE cur

\* results after the continuation of runDetection: results.value = data[0]
ResultsAfter(resp, cur) ==
  IF resp.outcome = "ok" THEN Index0(resp.data) ELSE cur

ErrorAfter_ClearsOnSuccess(resp, cur) ==
  IF resp.outcome = "ok"
  THEN IF Len(resp.data) = 0 THEN NoTargetMsg ELSE <<>>
  ELSE CatchMessage(ThrownMessage(resp))

ErrorAfter_NoticeAlways(resp, cur) ==
  IF resp.outcome = "ok" THEN NoTargetMsg ELSE CatchMessage(ThrownMessage(resp))

\* error after the continuation of runDetection: the notice for an empty outer
\* array, the caught message for a failure, untouched otherwise
ErrorAfter(resp, cur) ==
  IF resp.outcome = "ok"
  THEN IF Len(resp.data) = 0 THEN NoTargetMsg ELSE cur
  ELSE CatchMessage(ThrownMessage(resp))

LoadingAfter_Sticky(resp, cur) == cur

LoadingAfter_NoFinally(resp, cur) == IF resp.outcome = "ok" THEN FALSE ELSE cur

\* finally { isLoading.value = false }
LoadingAfter(resp, cur) == FALSE

Remaining_StillPending(reqs, r) == reqs

\* The fetches still pending once that of r has settled: an await resumes once.
Remaining(reqs, r) == reqs \ {r}

Response_AutoRetry(r, resp) ==
  /\ Idle
  /\ r \in inflight
  /\ results' = ResultsAfter(resp, results)
  /\ error' = ErrorAfter(resp, error)
  /\ IF resp.outcome # "ok" /\ nextId <= MaxRequests
     THEN /\ isLoading' = TRUE
          /\ inflight' = Remaining(inflight, r) \cup {NewRequest}
          /\ nextId' = nextId + 1
     ELSE /\ isLoading' = LoadingAfter(resp, isLoading)
          /\ inflight' = Remaining(inflight, r)
          /\ nextId' = nextId
  /\ last' = [NoStep EXCEPT !.op = "response", !.req = r, !.resp = resp]
  /\ UNCHANGED <<file, threshold, imageUrl, serviceDomain, domainList, storage, queue,
                 pc, urlCount, sessions, attempted, attemptedBefore, rendering>>

\* The fetch of request r settles with resp and runDetection runs to its end.
Response(r, resp) ==
  /\ Idle
  /\ r \in inflight
  /\ results' = ResultsAfter(resp, results)
  /\ error' = ErrorAfter(resp, error)
  /\ isLoading' = LoadingAfter(resp, isLoading)
  /\ inflight' = Remaining(inflight, r)
  /\ last' = [NoStep EXCEPT !.op = "response", !.req = r, !.resp = resp]
  /\ UNCHANGED <<file, threshold, imageUrl, serviceDomain, domainList, storage, queue,
                 pc, urlCount, nextId, sessions, attempted, attemptedBefore, rendering>>

\* watch([imageUrl, threshold]) callback
WatchDetect ==
  /\ queue # <<>> /\ Head(queue) = "detect"
  /\ IF imageUrl # 0
     THEN /\ runDetection
          /\ last' = Ran("watch:detect", last.op)
     ELSE /\ last' = [NoStep EXCEPT !.op = "watch:detect", !.cause = last.op]
          /\ UNCHANGED <<results, isLoading, error, domainList, storage, inflight,
                         nextId, attempted>>
  /\ queue' = Tail(queue)
  /\ UNCHANGED <<file, threshold, imageUrl, serviceDomain, pc, urlCount, sessions,
                 attemptedBefore, rendering>>

handleFileChange_KeepsError(selectedFile) ==
  /\ Idle
  /\ urlCount < MaxUrls
  /\ nextId <= MaxRequests
  /\ IF selectedFile = NoFile
     THEN UNCHANGED <<file, imageUrl, urlCount, results, error, queue>>
     ELSE /\ file' = selectedFile
          /\ imageUrl' = urlCount + 1
          /\ urlCount' = urlCount + 1
          /\ results' = Arr(<<>>)
          /\ error' = error
          /\ queue' = Enqueue(queue, "detect")
  /\ last' = [NoStep EXCEPT !.op = "handleFileChange", !.arg = selectedFile]
  /\ UNCHANGED <<threshold, isLoading, serviceDomain, domainList, storage, inflight,
                 pc, nextId, sessions, attempted, attemptedBefore, rendering>>

\* @change of the file input
handleFileChange(selectedFile) ==
  /\ Idle
  /\ urlCount < MaxUrls
  /\ nextId <= MaxRequests
  /\ IF selectedFile = NoFile
     THEN UNCHANGED <<file, imageUrl, urlCount, results, error, queue>>
     ELSE /\ file' = selectedFile
          /\ imageUrl' = urlCount + 1
          /\ urlCount' = urlCount + 1
          /\ results' = Arr(<<>>)
          /\ error' = <<>>
          /\ queue' = Enqueue(queue, "detect")
  /\ last' = [NoStep EXCEPT !.op = "handleFileChange", !.arg = selectedFile]
  /\ UNCHANGED <<threshold, isLoading, serviceDomain, domainList, storage, inflight,
                 pc, nextId, sessions, attempted, attemptedBefore, rendering>>

\* v-model.number of the threshold slider
SetThreshold(value) ==
  /\ Idle
  /\ nextId <= MaxRequests
  /\ value # threshold
  /\ threshold' = value
  /\ queue' = Enqueue(queue, "detect")
  /\ last' = [NoStep EXCEPT !.op = "setThreshold"]
  /\ UNCHANGED <<file, imageUrl, results, isLoading, error, serviceDomain, domainList,
                 storage, inflight, pc, urlCount, nextId, sessions, attempted,
                 attemptedBefore, rendering>>

SetServiceDomain_Retriggers(value) ==
  /\ Idle
  /\ value # serviceDomain
  /\ serviceDomain' = value
  /\ queue' = Enqueue(Enqueue(queue, "serviceDomain"), "detect")
  /\ last' = [NoStep EXCEPT !.op = "setServiceDomain", !.arg = value]
  /\ UNCHANGED <<file, threshold, imageUrl, results, isLoading, error, domainList,
                 storage, inflight, pc, urlCount, nextId, sessions, attempted,
                 attemptedBefore, rendering>>

\* v-model.trim of the service-domain input
SetServiceDomain(value) ==
  /\ Idle
  /\ value # serviceDomain
  /\ serviceDomain' = value
  /\ queue' = Enqueue(queue, "serviceDomain")
  /\ last' = [NoStep EXCEPT !.op = "setServiceDomain", !.arg = value]
  /\ UNCHANGED <<file, threshold, imageUrl, results, isLoading, error, domainList,
                 storage, inflight, pc, urlCount, nextId, sessions, attempted,
                 attemptedBefore, rendering>>

\* @click of the refresh button, enabled unless !file || isLoading
ClickRefresh ==
  /\ Idle
  /\ nextId <= MaxRequests
  /\ file # Null /\ ~isLoading
  /\ runDetection
  /\ last' = Ran("refresh", "")
  /\ UNCHANGED <<file, threshold, imageUrl, serviceDomain, queue, pc, urlCount,
                 sessions, attemptedBefore, rendering>>

\* @click of the retry button, rendered while error is not ''
ClickRetry ==
  /\ Idle
  /\ nextId <= MaxRequests
  /\ error # <<>>
  /\ runDetection
  /\ last' = Ran("retry", "")
  /\ UNCHANGED <<file, threshold, imageUrl, serviceDomain, queue, pc, urlCount,
                 sessions, attemptedBefore, rendering>>

\* The page is loaded again: <script setup> runs afresh, localStorage is kept.
Reload ==
  /\ Idle
  /\ sessions < MaxSessions
  /\ file' = Null
  /\ threshold' = DefaultThreshold
  /\ imageUrl' = 0
  /\ results' = Arr(<<>>)
  /\ isLoading' = FALSE
  /\ error' = <<>>
  /\ serviceDomain' = ""
  /\ domainList' = <<>>
  /\ inflight' = {}
  /\ queue' = <<>>
  /\ pc' = "setup"
  /\ sessions' = sessions + 1
  /\ attempted' = {}
  /\ attemptedBefore' = attemptedBefore \cup attempted
  /\ last' = [NoStep EXCEPT !.op = "reload"]
  /\ img' = NoImg
  /\ imagePreview' = Null
  /\ originalImage' = Null
  /\ bboxStyles' = <<>>
  /\ download' = NoDownload
  /\ UNCHANGED <<storage, urlCount, nextId>>

Next ==
  \/ OnMounted
  \/ WatchServiceDomain
  \/ WatchDetect
  \/ \E f \in Files \cup {NoFile} : handleFileChange(f)
  \/ \E t \in Thresholds : SetThreshold(t)
  \/ \E d \in Domains : SetServiceDomain(d)
  \/ ClickRefresh
  \/ ClickRetry
  \/ \E r \in inflight : \E resp \in Responses : Response(r, resp)
  \/ Reload

Spec == Init /\ [][Next]_vars

\* The network delivers a response or a failure for request i.
Deliver(i) == \E r \in inflight : r.id = i /\ \E resp \in Responses : Response(r, resp)

\* Spec with the scheduling of the event loop: queued watcher callbacks run, and
\* a response that has arrived is handled between two handlers: it cannot be put
\* off for ever by handlers and watcher callbacks, each of which ends.
SpecFair ==
  /\ Spec
  /\ WF_vars(WatchServiceDomain)
  /\ WF_vars(WatchDetect)
  /\ \A i \in 1..MaxRequests : SF_vars(Deliver(i))

\* ------------------------------------------------------------- rendering
\* The preview of one chosen image: the <img> element, the bbox overlays drawn
\* over it and the download of a crop.  Spec follows the requests and leaves the
\* page's rendering alone; SpecRender follows the rendering of a page on which
\* a detection has answered.
\*
\* JavaScript numbers are kept exact here, as fractions in lowest terms.
RECURSIVE GCD(_, _)
GCD(a, b) == IF b = 0 THEN a ELSE GCD(b, a % b)
Frac(n, d) == LET g == GCD(n, d) IN [num |-> n \div g, den |-> d \div g]
\* a / b
Divide(a, b) == Frac(a, b)
\* k * f, k an integer
Times(k, f) == Frac(k * f.num, f.den)
\* `${v}px`
Px(v) == <<v, "px">>

NaturalSizes == {<<1000, 1000>>, <<600, 400>>}   \* pictures: width, height
ClientSizes == {<<500, 500>>, <<300, 200>>}      \* boxes the layout gives the <img>

\* {}: an object with none of the four properties
EmptyStyle == [left |-> <<>>, top |-> <<>>, width |-> <<>>, height |-> <<>>]

ScaleY_FromWidth(preview) == Divide(preview.clientWidth, preview.naturalHeight)

\* lines 120-121; imagePreview and originalImage are the same element
ScaleX(preview) == Divide(preview.clientWidth, preview.naturalWidth)
ScaleY(preview) == Divide(preview.clientHeight, preview.naturalHeight)

\* getBboxStyle(bbox), for the two refs and the element they point to
getBboxStyle(previewRef, originalRef, el, bbox) ==
  IF previewRef = Null \/ originalRef = Null
  THEN EmptyStyle
  ELSE LET scaleX == ScaleX(el)
           scaleY == ScaleY(el)
           x1 == bbox[1]
           y1 == bbox[2]
           x2 == bbox[3]
           y2 == bbox[4]
       IN [left |-> Px(Times(x1, scaleX)),
           top |-> Px(Times(y1, scaleY)),
           width |-> Px(Times(x2 - x1, scaleX)),
           height |-> Px(Times(y2 - y1, scaleY))]

CropHeight_FromY2(bbox) == bbox[4]

\* lines 137-138
CropWidth(bbox) == bbox[3] - bbox[1]
CropHeight(bbox) == bbox[4] - bbox[2]

\* file.name.split('.')[0]
SplitDot0(name) == CASE name = "a.png" -> "a" [] name = "b.png" -> "b"

\* What downloadCrop(bbox, index) makes: the canvas's size, the rectangle of the
\* picture drawn on it, and the name of the file offered.
Downloaded(originalRef, chosen, bbox, index) ==
  IF originalRef = Null
  THEN [NoDownload EXCEPT !.clicked = TRUE, !.bbox = bbox, !.index = index]
  ELSE [clicked |-> TRUE, bbox |-> bbox, index |-> index, drawn |-> TRUE,
        width |-> CropWidth(bbox), height |-> CropHeight(bbox),
        source |-> <<bbox[1], bbox[2], CropWidth(bbox), CropHeight(bbox)>>,
        name |-> <<"crop_", SplitDot0(chosen), "_", index, ".png">>]

\* The request flow as the rendering finds it: a.png or b.png chosen, the one
\* request answered with detections (or none), nothing pending.
Answered ==
  /\ file \in Files
  /\ threshold = DefaultThreshold
  /\ imageUrl = 1
  /\ \E d \in Bodies :
       /\ Len(d) > 0
       /\ results = Index0(d)
       /\ last = [NoStep EXCEPT !.op = "response",
                                !.req = [id |-> 1, solo |-> TRUE, quiet |-> TRUE],
                                !.resp = OkResp(d)]
  /\ isLoading = FALSE
  /\ error = <<>>
  /\ serviceDomain = DefaultDomain
  /\ domainList = <<DefaultDomain>>
  /\ storage = SetItem(EmptyStorage, "serviceDomain", DefaultDomain)
  /\ inflight = {}
  /\ queue = <<>>
  /\ pc = "mounted"
  /\ urlCount = 1
  /\ nextId = 2
  /\ sessions = 1
  /\ attempted = {DefaultDomain}
  /\ attemptedBefore = {}

\* v-if="imageUrl" has put the <img> on the page; its picture is not loaded yet.
InitRender ==
  /\ Answered
  /\ img = NoImg
  /\ imagePreview = "img"
  /\ originalImage = Null
  /\ bboxStyles = <<>>
  /\ download = NoDownload

flow == <<file, threshold, imageUrl, results, isLoading, error, serviceDomain, domainList,
          storage, inflight, queue, pc, urlCount, nextId, sessions, attempted,
          attemptedBefore, last>>

\* @load of the <img>: the picture has its natural size, then onImageLoad runs
onImageLoad(size) ==
  /\ imagePreview # Null
  /\ img.naturalWidth = 0
  /\ img' = [img EXCEPT !.naturalWidth = size[1], !.naturalHeight = size[2]]
  /\ originalImage' = imagePreview
  /\ UNCHANGED <<flow, imagePreview, bboxStyles, download>>

\* The browser lays the page out: the <img> gets a box.
Layout(size) ==
  /\ imagePreview # Null
  /\ <<img.clientWidth, img.clientHeight>> # size
  /\ img' = [img EXCEPT !.clientWidth = size[1], !.clientHeight = size[2]]
  /\ UNCHANGED <<flow, imagePreview, originalImage, bboxStyles, download>>

\* The template is rendered: one overlay for each result (line 200).
Render ==
  /\ imageUrl # 0
  /\ results.type = "array"
  /\ bboxStyles' = [i \in 1..Len(results.items) |->
                      getBboxStyle(imagePreview, originalImage, img, results.items[i].bbox)]
  /\ UNCHANGED <<flow, img, imagePreview, originalImage, download>>

\* @click of the download button of result `index` (counted from 0, line 214)
downloadCrop(index) ==
  /\ imageUrl # 0
  /\ results.type = "array"
  /\ index + 1 \in 1..Len(results.items)
  /\ download' = Downloaded(originalImage, file, results.items[index + 1].bbox, index)
  /\ UNCHANGED <<flow, img, imagePreview, originalImage, bboxStyles>>

NextRender ==
  \/ \E size \in NaturalSizes : onImageLoad(size)
  \/ \E size \in ClientSizes : Layout(size)
  \/ Render
  \/ \E index \in 0..1 : downloadCrop(index)

SpecRender == InitRender /\ [][NextRender]_vars

\* ---------------------------------------------------------------- claims
\* A message contains a piece of text.
Contains(msg, tok) == \E i \in 1..Len(msg) : msg[i] = tok

\* A state reached by the end of a runDetection invocation: by the step that
\* called it when it threw before fetching, or by the response to its fetch.
InvocationEnded == (last.ran /\ ~last.fetched) \/ last.op = "response"

\* C1: with a file selected and serviceDomain '', a call of runDetection makes no
\* network request and leaves error set to the empty-domain validation message.
C1_EmptyDomainNoRequest ==
  (last.ran /\ file # Null /\ serviceDomain = "")
    => (~last.fetched /\ error = EmptyDomainMsg)

C1_Witness ==
  last.op = "retry" /\ last.ran /\ file # Null /\ serviceDomain = "" /\ error = EmptyDomainMsg

\* C2: when a runDetection invocation ends, whatever its outcome, isLoading is false.
C2_LoadingFalseOnExit == InvocationEnded => ~isLoading

C2_Witness ==
  /\ last.op = "response"
  /\ last.resp.outcome = "parsefail"
  /\ inflight # {}
  /\ ~isLoading

\* C3: a 2xx response whose body is the empty array [] leaves results the empty
\* array and error the no-target notice.
C3_EmptyArrayBody ==
  (last.op = "response" /\ last.resp.outcome = "ok" /\ last.resp.data = <<>>)
    => (results = Arr(<<>>) /\ error = NoTargetMsg)

\* C4 as claimed: a request during which no other request was in flight and that
\* gets a 2xx response with a non-empty outer array leaves results its first
\* element and error ''.
C4_SoleRequestSuccess ==
  (/\ last.op = "response"
   /\ last.req.solo
   /\ last.resp.outcome = "ok"
   /\ Len(last.resp.data) > 0)
    => (results = Arr(last.resp.data[1]) /\ error = <<>>)

\* C4 as amended: a request during which no other request was in flight and
\* runDetection was not called again (not even a call that fails validation), and
\* that gets a 2xx response with a non-empty outer array, leaves results its first
\* element, in order, and error ''.
C4_UndisturbedSuccess ==
  (/\ last.op = "response"
   /\ last.req.solo /\ last.req.quiet
   /\ last.resp.outcome = "ok"
   /\ Len(last.resp.data) > 0)
    => (results = Arr(last.resp.data[1]) /\ error = <<>>)

C4_Witness ==
  /\ last.op = "response"
  /\ last.req.solo /\ last.req.quiet
  /\ last.resp.outcome = "ok"
  /\ Len(last.resp.data) > 1
  /\ results = Arr(<<Det2, Det1>>)
  /\ error = <<>>

\* C5: a request during which no other request was in flight and that gets a
\* non-2xx response leaves error containing the status code, the status text and
\* the body text, and results empty (the body is not taken as detections).
C5_SoleRequestServiceError ==
  (last.op = "response" /\ last.req.solo /\ last.resp.outcome = "notok")
    => (/\ Contains(error, last.resp.status)
        /\ Contains(error, last.resp.statusText)
        /\ Contains(error, last.resp.text)
        /\ results = Arr(<<>>))

C5_Witness ==
  /\ last.op = "response" /\ last.req.solo /\ last.resp.outcome = "notok"
  /\ Contains(error, "500") /\ Contains(error, "boom")
  /\ results = Arr(<<>>)

\* C6: every address a request was made to in this page session is in domainList,
\* and already so in the state in which the request has just been made.
C6_AttemptedAreKnown ==
  /\ \A a \in attempted : Includes(domainList, a)
  /\ last.fetched => Includes(domainList, last.sent.domain)

C6_Witness ==
  /\ last.fetched
  /\ serviceDomain = OtherDomain
  /\ attempted = {DefaultDomain, OtherDomain}
  /\ domainList = <<DefaultDomain, OtherDomain>>

\* C7 as claimed: once serviceDomain has been changed with a file selected and
\* the callbacks queued by that change have run, runDetection has been called.
C7_DomainChangeRetriggers ==
  (/\ last.op = "watch:serviceDomain"
   /\ last.cause = "setServiceDomain"
   /\ queue = <<>>
   /\ file # Null)
    => last.ran

\* C7 as amended: a change of serviceDomain queues the callback that saves the
\* address and nothing else; neither the change nor that callback calls
\* runDetection or makes a request.
C7_DomainChangeOnlySaves ==
  /\ last.op = "setServiceDomain"
       => (queue = <<"serviceDomain">> /\ ~last.ran /\ ~last.fetched)
  /\ (last.op = "watch:serviceDomain" /\ last.cause = "setServiceDomain")
       => (queue = <<>> /\ ~last.ran /\ ~last.fetched)

C7_Witness ==
  /\ last.op = "watch:serviceDomain"
  /\ last.cause = "setServiceDomain"
  /\ queue = <<>>
  /\ file # Null
  /\ serviceDomain = OtherDomain
  /\ OtherDomain \notin attempted
  /\ inflight = {}

\* C8: choosing a file sets file to it, makes a fresh imageUrl, empties results and
\* error and queues the detection callback once; that callback then calls
\* runDetection, once, for the new file.
C8_SelectFile ==
  /\ (last.op = "handleFileChange" /\ last.arg # NoFile)
       => (/\ file = last.arg
           /\ imageUrl = urlCount /\ imageUrl > 0
           /\ results = Arr(<<>>)
           /\ error = <<>>
           /\ queue = <<"detect">>
           /\ ~last.ran)
  /\ (last.op = "watch:detect" /\ last.cause = "handleFileChange")
       => (/\ last.ran
           /\ queue = <<>>
           /\ last.fetched
                => (/\ \E r \in inflight : r.id = nextId - 1
                    /\ last.sent.file = file
                    /\ last.sent.domain = serviceDomain))

C8_Witness ==
  /\ last.op = "watch:detect"
  /\ last.cause = "handleFileChange"
  /\ last.fetched
  /\ imageUrl = 2
  /\ last.sent.file = "b.png"
  /\ \E r \in inflight : r.id = nextId - 1

\* What one response would leave behind if its invocation were the only one.
ResultsOf(resp) == IF resp.outcome = "ok" THEN Index0(resp.data) ELSE Arr(<<>>)
ErrorOf(resp) ==
  IF resp.outcome = "ok"
  THEN IF Len(resp.data) = 0 THEN NoTargetMsg ELSE <<>>
  ELSE CatchMessage(ThrownMessage(resp))

C10_KnownAcrossSessions ==
  last.op = "onMounted" => \A a \in attemptedBefore : Includes(domainList, a)

\* No address occurs twice in the list.
NoDuplicates(list) == \A i, j \in 1..Len(list) : list[i] = list[j] => i = j

\* C11: addDomainToList is idempotent: in every state and for every address, a
\* second call right after the first changes neither domainList nor the stored
\* list; a call with '' or with an address already present changes nothing; so
\* domainList never holds an address twice, and two calls with one address on an
\* empty list leave one entry.
C11_RememberIdempotent ==
  /\ NoDuplicates(domainList)
  /\ NoDuplicates(SavedDomains(storage))
  /\ \A a \in Domains :
       LET l1 == AddedList(domainList, a)
           s1 == AddedStorage(storage, domainList, a)
       IN /\ AddedList(l1, a) = l1
          /\ AddedStorage(s1, l1, a) = s1
          /\ (a = "" \/ Includes(domainList, a)) => (l1 = domainList /\ s1 = storage)
          /\ (a # "" /\ ~Includes(domainList, a))
               => (l1 = Append(domainList, a) /\ SavedDomains(s1) = l1)
          /\ (a # "" /\ domainList = <<>>) => Len(AddedList(l1, a)) = 1
  /\ (last.ran /\ file # Null)
       => (/\ AddedList(domainList, serviceDomain) = domainList
           /\ AddedStorage(storage, domainList, serviceDomain) = storage)

\* runDetection has called it a second time with an address the first call added.
C11_Witness ==
  /\ last.op = "retry" /\ last.fetched
  /\ serviceDomain = OtherDomain
  /\ domainList = <<DefaultDomain, OtherDomain>>
  /\ SavedDomains(storage) = domainList

\* C12: the serviceDomain key of localStorage is never written with '': once the
\* callbacks of an edit have run it holds the address in the input when that is
\* not '', it changes only to a non-empty address the input has just taken, and
\* it keeps its value while the input is ''.
C12_LastUsedNeverEmpty ==
  /\ [](/\ storage.serviceDomain # <<"">>
        /\ (Idle /\ serviceDomain # "") => storage.serviceDomain = <<serviceDomain>>)
  /\ [][/\ storage'.serviceDomain # storage.serviceDomain
             => (serviceDomain' # "" /\ storage'.serviceDomain = <<serviceDomain'>>)
        /\ serviceDomain' = "" => storage'.serviceDomain = storage.serviceDomain
       ]_vars

\* The input has been emptied after OtherDomain was typed; the stored address stays.
C12_Witness ==
  /\ last.op = "watch:serviceDomain" /\ last.cause = "setServiceDomain"
  /\ serviceDomain = ""
  /\ storage.serviceDomain = <<OtherDomain>>

\* C13: a 2xx response that carries no detection leaves error the no-target notice
\* and results an empty array; stated here for the bodies whose first batch is
\* empty, such as [[]] (C3 is the body []).
C13_ZeroDetectionsNotice ==
  (/\ last.op = "response"
   /\ last.resp.outcome = "ok"
   /\ Len(last.resp.data) > 0
   /\ last.resp.data[1] = <<>>)
    => (error = NoTargetMsg /\ results = Arr(<<>>))

\* C14 as stated: downloadCrop on the bbox [10,20,110,220] of a loaded 1000x1000
\* picture makes a canvas 100 pixels wide and 220 pixels high.
C14_Crop100x220 ==
  (/\ download.drawn
   /\ download.bbox = <<10, 20, 110, 220>>
   /\ img.naturalWidth = 1000 /\ img.naturalHeight = 1000)
    => (download.width = 100 /\ download.height = 220)

\* C14, amended: the canvas downloadCrop makes is x2-x1 wide and y2-y1 high and
\* shows that rectangle of the picture from (x1,y1); for the bbox [10,20,110,220]
\* of a loaded 1000x1000 picture it is 100 pixels wide and 200 pixels high.
C14_Crop100x200 ==
  /\ download.drawn
       => (/\ download.width = download.bbox[3] - download.bbox[1]
           /\ download.height = download.bbox[4] - download.bbox[2]
           /\ download.source = <<download.bbox[1], download.bbox[2],
                                  download.width, download.height>>)
  /\ (/\ download.drawn
      /\ download.bbox = <<10, 20, 110, 220>>
      /\ img.naturalWidth = 1000 /\ img.naturalHeight = 1000)
       => (download.width = 100 /\ download.height = 200)

C14_Witness ==
  /\ download.drawn
  /\ download.bbox = <<10, 20, 110, 220>>
  /\ originalImage # Null
  /\ img.naturalWidth = 1000 /\ img.naturalHeight = 1000
  /\ download.width = 100 /\ download.height = 200

\* Boxes with 0 <= x1 < x2 and 0 <= y1 < y2
Bboxes == {<<0, 0, 10, 10>>, <<10, 20, 110, 220>>, <<3, 1, 4, 7>>}

\* The rectangle of C15 for a box drawn over an <img> element
OverlayRect(el, bbox) ==
  [left |-> <<Frac(bbox[1] * el.clientWidth, el.naturalWidth), "px">>,
   top |-> <<Frac(bbox[2] * el.clientHeight, el.naturalHeight), "px">>,
   width |-> <<Frac((bbox[3] - bbox[1]) * el.clientWidth, el.naturalWidth), "px">>,
   height |-> <<Frac((bbox[4] - bbox[2]) * el.clientHeight, el.naturalHeight), "px">>]

\* C15: once both image references are set, getBboxStyle gives left = x1*dw/nw,
\* top = y1*dh/nh, width = (x2-x1)*dw/nw, height = (y2-y1)*dh/nh; while either
\* reference is null it gives the empty rectangle; and each render draws the
\* overlays of the results so.
C15_OverlayRect ==
  /\ [](\A bbox \in Bboxes :
          /\ (imagePreview # Null /\ originalImage # Null)
               => (/\ img.naturalWidth > 0 /\ img.naturalHeight > 0
                   /\ getBboxStyle(imagePreview, originalImage, img, bbox)
                        = OverlayRect(img, bbox))
          /\ (imagePreview = Null \/ originalImage = Null)
               => getBboxStyle(imagePreview, originalImage, img, bbox) = EmptyStyle
          /\ \A p, o \in {Null, "img"} :
               (p = Null \/ o = Null) => getBboxStyle(p, o, img, bbox) = EmptyStyle)
  /\ [][bboxStyles' # bboxStyles
          => /\ Len(bboxStyles') = Len(results.items)
             /\ \A i \in 1..Len(results.items) :
                  bboxStyles'[i] = IF originalImage = Null
                                   THEN EmptyStyle
                                   ELSE OverlayRect(img, results.items[i].bbox)]_vars

C15_Witness ==
  /\ originalImage # Null
  /\ img = [naturalWidth |-> 1000, naturalHeight |-> 1000,
            clientWidth |-> 300, clientHeight |-> 200]
  /\ Len(bboxStyles) = 2
  /\ bboxStyles[1] = [left |-> <<[num |-> 3, den |-> 1], "px">>,
                      top |-> <<[num |-> 4, den |-> 1], "px">>,
                      width |-> <<[num |-> 30, den |-> 1], "px">>,
                      height |-> <<[num |-> 40, den |-> 1], "px">>]

\* C16: a change of threshold queues the detection watcher; with an image present
\* its callback calls runDetection, whose request (made unless the address is
\* empty) carries the new threshold; with no image it calls nothing and no
\* request is made.
C16_ThresholdRetriggers ==
  /\ last.op = "setThreshold" => queue = <<"detect">>
  /\ (last.op = "watch:detect" /\ last.cause = "setThreshold")
       => IF imageUrl # 0
          THEN /\ last.ran
               /\ last.fetched <=> serviceDomain # ""
               /\ last.fetched
                    => (/\ last.sent.threshold = threshold
                        /\ last.sent.domain = serviceDomain
                        /\ last.sent.file = file
                        /\ \E r \in inflight : r.id = nextId - 1)
          ELSE /\ ~last.ran
               /\ ~last.fetched
               /\ ~isLoading

C16_Witness ==
  /\ last.op = "watch:detect" /\ last.cause = "setThreshold"
  /\ imageUrl # 0
  /\ last.fetched
  /\ threshold = 55
  /\ last.sent.threshold = 55

\* C17: nothing is retried automatically.  A request is made only by the step of
\* a click on refresh or retry, or by the watcher's callback that directly follows
\* a file selection or a threshold change, and each such step makes at most one; the
\* step in which a request ends, in an error or not, makes none.
C17_NoAutomaticRetry ==
  [][/\ nextId' # nextId
          => (/\ nextId' = nextId + 1
              /\ Cardinality(inflight') <= Cardinality(inflight) + 1
              /\ last'.op \in {"refresh", "retry", "watch:detect"}
              /\ last'.op = "watch:detect"
                   => (last.op \in {"handleFileChange", "setThreshold"}
                       /\ last'.cause = last.op))
     /\ last'.op = "response"
          => (nextId' = nextId /\ inflight' = inflight \ {last'.req})
     /\ (last.op \in {"handleFileChange", "setThreshold"} /\ queue # <<>>)
          => (queue = <<"detect">> /\ last'.op = "watch:detect" /\ queue' = <<>>) ]_vars

C17_Witness ==
  /\ last.op = "response"
  /\ last.resp.outcome # "ok"
  /\ error # <<>>
  /\ inflight = {}
  /\ nextId <= MaxRequests

TerminalOutcomes == {"ok", "notok", "netfail", "parsefail"}

\* C18: every request made is answered once: while the page lives, its invocation
\* resumes with one of success, service error, network failure or parse failure
\* and ends with isLoading false, and it does not resume again; an invocation
\* that fails validation ends with the validation message, isLoading false and
\* no request made.
C18_ReachesOneOutcome ==
  /\ [](/\ \A r1, r2 \in inflight : r1.id = r2.id => r1 = r2
        /\ \A r \in inflight : r.id < nextId
        /\ last.op = "response"
             => (last.resp.outcome \in TerminalOutcomes /\ ~isLoading)
        /\ (last.ran /\ file # Null /\ ~last.fetched)
             => (/\ serviceDomain = ""
                 /\ error = EmptyDomainMsg
                 /\ ~isLoading
                 /\ \A r \in inflight : r.id < nextId /\ ~r.quiet))
  /\ [][/\ last'.op = "response"
             => (/\ last'.req \in inflight
                 /\ inflight' = inflight \ {last'.req}
                 /\ \A r \in inflight' : r.id # last'.req.id)
        /\ (last'.ran /\ ~last'.fetched) => (nextId' = nextId /\ inflight' \subseteq
                                               Disturbed(inflight, FALSE))
        /\ last'.fetched
             => (/\ \A r \in inflight : r.id # nextId
                 /\ \E r \in inflight' : r.id = nextId /\ nextId' = nextId + 1) ]_vars
  /\ \A i \in 1..MaxRequests :
       (\E r \in inflight : r.id = i)
         ~> \/ last.op = "response" /\ last.req.id = i /\ ~isLoading
            \/ last.op = "reload" /\ inflight = {}

C18_Witness ==
  /\ last.op = "response"
  /\ last.req.id = 2
  /\ ~last.req.solo
  /\ last.resp.outcome = "parsefail"
  /\ ~isLoading

\* C19 as stated: isLoading is true if and only if a request is in flight.
C19_LoadingIffInFlight == isLoading <=> inflight # {}

\* C19, amended: isLoading is true only while a request is in flight, the latest
\* one made; and it is true while a request is in flight during which no other
\* request was pending and runDetection was not called again.  (When invocations
\* overlap, the first to end sets isLoading false while the others are pending.)
C19_LoadingWhileUndisturbed ==
  /\ isLoading => \E r \in inflight : r.id = nextId - 1
  /\ inflight = {} => ~isLoading
  /\ \A r \in inflight : (r.solo /\ r.quiet) => isLoading

C19_Witness ==
  /\ last.op = "response"
  /\ Cardinality(inflight) = 1
  /\ ~isLoading
  /\ file # Null

\* C20 as stated: whenever no request is in flight, a message in error means that
\* results is empty.
C20_ErrorMeansNoResults ==
  (inflight = {} /\ error # <<>>) => results.items = <<>>

\* C20, amended: when the invocation that just ended leaves no request in flight and
\* was not overlapped by another (no other request pending during it, runDetection
\* not called again), or ended at validation, a message in error means that no
\* detection is shown.
C20_ErrorMeansNoResultsUndisturbed ==
  (/\ inflight = {}
   /\ \/ last.op = "response" /\ last.req.solo /\ last.req.quiet
      \/ last.ran /\ file # Null /\ ~last.fetched)
    => /\ error # <<>> => results.items = <<>>
       /\ results.items # <<>> => (error = <<>> /\ results.type = "array")

C20_Witness ==
  /\ inflight = {}
  /\ last.op = "response" /\ last.req.solo /\ last.req.quiet
  /\ last.resp.outcome = "notok"
  /\ error # <<>>
  /\ results = Arr(<<>>)

====
